---- MODULE Spec2Model ----
(***************************************************************************)
(* Job queue abstraction of the framework's queue package: the in-memory   *)
(* reference backend (memoryBroker / memoryQueue / memoryJobIter) and the  *)
(* transport-backed backend (AMQPBroker / AMQPQueue / AMQPJobIter).        *)
(*                                                                         *)
(* One behaviour runs one backend, chosen in Init.  Durations are counted  *)
(* in half milliseconds.                                                   *)
(***************************************************************************)
EXTENDS Integers, Sequences, FiniteSets, TLC

\* ---------------------------------------------------------------- bounds
\* Number of publish calls (Publish and PublishDelayed, on a queue or on a
\* transaction's scoped queue) per behaviour.
MaxPub == 2
\* Longest delay handed to PublishDelayed, in half milliseconds.
MaxDelay == 3
\* Connections dialled per behaviour, the one of NewAMQPBroker included.
MaxGen == 3

\* ------------------------------------------------------- program constants
\* make([]*Job, 0, 10): capacity of the backing array of memoryQueue.jobs.
Cap == 10
\* time.Millisecond, in half milliseconds.
Millisecond == 2

\* ------------------------------------------------------------------- jobs
NoAck == "none"

\* Priority is a small integer (an 8-bit value); the jobs use these values.
Priorities == <<5, 1, 255, 0>>

PriorityOf(i) == Priorities[((i - 1) % Len(Priorities)) + 1]

ContentTypeOf(i) == IF i % 2 = 0 THEN "application/msgpack" ELSE "application/json"

\* A time.Time: whole seconds and the nanoseconds within the second.
ZeroTime == [sec |-> 0, nsec |-> 0]

\* The creation time of the i-th job: with a part below the second for odd i.
TimestampOf(i) == [sec |-> 1000 + i, nsec |-> (i % 2) * 500]

\* A job as built for publishing: no tag, no acknowledger.
NewJobOf(i, raw) ==
  [ ID           |-> i,
    Priority     |-> PriorityOf(i),
    Timestamp    |-> TimestampOf(i),
    contentType  |-> ContentTypeOf(i),
    raw          |-> raw,
    tag          |-> 0,
    acknowledger |-> NoAck ]

\* A nil *Job, and the content of an array slot that was never written.
NilJob ==
  [ ID |-> -1, Priority |-> 0, Timestamp |-> ZeroTime, contentType |-> "", raw |-> << >>,
    tag |-> 0, acknowledger |-> NoAck ]

NoJob == [NilJob EXCEPT !.ID = -2]

JobIds == 1 .. MaxPub

\* The jobs the k-th publish call may be handed: one with a payload and one
\* with an empty payload.  IDs are unique per job.
JobInputs(k) == {NewJobOf(k, <<k>>), NewJobOf(k, << >>)}

Delays == 0 .. MaxDelay

\* The iterators of the in-memory queue, and those of the transport-backed one.
Iters == {1, 2}
AmqpIters == {1}

\* The caller-visible fields of a job that a round trip has to preserve.
Envelope(j) ==
  [ ID |-> j.ID, Priority |-> j.Priority, Timestamp |-> j.Timestamp,
    contentType |-> j.contentType, raw |-> j.raw ]

\* ----------------------------------------------------------------- errors
ErrNil == "nil"
ErrEmptyJob == "ErrEmptyJob"
ErrAlreadyClosed == "ErrAlreadyClosed"
ErrCallback == "callback error"

VARIABLES
  backend,     \* "memory" or "amqp": the Broker implementation in use
  jobs,        \* memoryQueue.jobs: the backing array, slots 1..Cap
  jobsLen,     \* memoryQueue.jobs: the length field of the slice header
  idx,         \* memoryQueue.idx, shared by all iterators of the queue
  mut,         \* memoryQueue.RWMutex: Free, or the Publish call holding it
  timers,      \* goroutines of PublishDelayed waiting on time.After
  chOpen,      \* AMQPBroker.ch: the broker's channel is open
  queue,       \* transport: the messages ready in the destination queue
  delayq,      \* transport: the messages waiting in their transient queues
  its,         \* the AMQPJobIters handed out by Consume, by iterator
  tx,          \* the Transaction call in progress
  nPub,        \* publish calls made so far
  wait,        \* job ID -> time left of the delay the job was published with
  how,         \* job ID -> how the job was published
  delivered,   \* IDs of the jobs returned by Next so far, in order
  served,      \* iterators whose Next has returned a job
  ret,         \* what the call just made returned: of Next and Transaction
               \* always, of a publish call or Close when it is an error;
               \* else NoRet
  bconn,       \* AMQPBroker.conn: the generation of the current connection
  bch,         \* AMQPBroker.ch: the connection the current channel is of
  bmut,        \* AMQPBroker.mut: who holds the broker lock
  stop,        \* AMQPBroker.stop has been closed
  connErrors,  \* AMQPBroker.connErrors: what a receive from it finds
  watch,       \* the connection NotifyClose was last registered on
  sup,         \* manageConnection: its position and its local variables
  conns,       \* transport: the connections that are open
  chans,       \* transport: the connections whose control channel is open
  up,          \* transport: the server can be reached
  nDial,       \* connections dialled so far
  cl,          \* the Broker or Queue call in progress on the client side
  h2           \* the memoryQueue of a second memoryBroker.Queue call

memVars == <<jobs, jobsLen, idx, mut, timers>>
amqpVars == <<chOpen, queue, delayq, its>>
brokerVars == <<bconn, bch, bmut, stop, connErrors, watch, sup, conns, chans,
                up, nDial, cl, h2>>
varsButRet == <<backend, jobs, jobsLen, idx, mut, timers, chOpen, queue, delayq,
               its, tx, nPub, wait, how, delivered, served, bconn, bch, bmut,
               stop, connErrors, watch, sup, conns, chans, up, nDial, cl, h2>>
vars == <<backend, jobs, jobsLen, idx, mut, timers, chOpen, queue, delayq, its,
          tx, nPub, wait, how, delivered, served, ret, bconn, bch, bmut, stop,
          connErrors, watch, sup, conns, chans, up, nDial, cl, h2>>

Free == [pc |-> "free"]
\* tx.pc: "idle" before the first Transaction call, "cb" while the callback
\* runs, "write" while the commit runs, "returned" after Transaction returned.
NoTx == [pc |-> "idle", jobs |-> << >>, len |-> 0, w |-> 0]
TxReturned == [NoTx EXCEPT !.pc = "returned"]
NoRet == [op |-> "none"]
NoMsg == [MessageId |-> -1]
\* An iterator that Consume has not handed out yet.  stream is the buffer of
\* its delivery channel, n the last delivery tag of its transport channel and
\* held the delivery the transport waits to see acknowledged.
NoIter == [state |-> "none", stream |-> << >>, held |-> NoMsg, n |-> 0]

\* how[i].st: "none" (not published yet), "direct" (Publish on the queue),
\* "delayed" (PublishDelayed on the queue), "failed" (the transport refused the
\* publish, or the commit of its transaction), or, for a job published on the
\* scoped queue of a transaction, "pending" while the transaction runs, then
\* "aborted" (the callback failed) or "committed" (the callback returned nil
\* and Transaction returned nil).  how[i].g is the ID of the first job of that
\* transaction, 0 outside transactions; how[i].rq says that the transport has
\* put the job back into the queue; how[i].raw is the payload it was published
\* with.
NotPublished == [g |-> 0, st |-> "none", rq |-> FALSE, raw |-> << >>]
How(st, j) == [g |-> 0, st |-> st, rq |-> FALSE, raw |-> j.raw]

\* The caller of the last call has taken what it returned: the program goes on.
Ready == ret = NoRet

Max(a, b) == IF a > b THEN a ELSE b

Range(s) == {s[k] : k \in 1 .. Len(s)}

\* The IDs of the jobs a consumer of the in-memory queue can reach or has
\* been handed: slots 1..len of the backing array.
VisibleIds == {jobs[k].ID : k \in 1 .. jobsLen}

\* The inputs of the next publish call, while calls are left.
NextInputs == IF nPub < MaxPub THEN JobInputs(nPub + 1) ELSE {}

\* The connection NewAMQPBroker dials; every later Dial makes the next one.
FirstGen == 1
\* cl: the call in progress. conn and ch are the values the call has read
\* from the broker (a channel is named by the connection it is of), since is
\* the broker's channel when the call was issued, racy tells that a read
\* was made while the supervisor held the lock, dch is the dedicated channel
\* that Consume opens on conn ("none" before, then "open" or "closed").
NoCall == [op |-> "none", pc |-> "idle", conn |-> 0, ch |-> 0, since |-> 0,
           err |-> ErrNil, racy |-> FALSE, job |-> NoJob, dch |-> "none"]
\* sup.pc: "select" in the loop of manageConnection, "lock" to "unlock" inside
\* its first case, "dial" to "chanwait" inside connect, "stopped" once returned.
SupSelect == [pc |-> "select", err |-> FALSE, conn |-> 0]
NoQueue == [made |-> FALSE, jobs |-> << >>, idx |-> 0]

BrokerInit ==
  /\ bconn = FirstGen
  /\ bch = FirstGen
  /\ bmut = "free"
  /\ stop = FALSE
  /\ connErrors = "empty"
  /\ watch = FirstGen
  /\ sup = SupSelect
  /\ conns = {FirstGen}
  /\ chans = {FirstGen}
  /\ up = TRUE
  /\ nDial = FirstGen
  /\ cl = NoCall
  /\ h2 = NoQueue

Init ==
  /\ backend \in {"memory", "amqp"}
  /\ jobs = [k \in 1 .. Cap |-> NoJob]
  /\ jobsLen = 0
  /\ idx = 0
  /\ mut = Free
  /\ timers = {}
  /\ chOpen = TRUE
  /\ queue = << >>
  /\ delayq = {}
  /\ its = [i \in AmqpIters |-> NoIter]
  /\ tx = NoTx
  /\ nPub = 0
  /\ wait = [i \in JobIds |-> 0]
  /\ how = [i \in JobIds |-> NotPublished]
  /\ delivered = << >>
  /\ served = {}
  /\ ret = NoRet
  /\ BrokerInit

\* Half a millisecond passes: every pending timer and every delay still
\* running gets closer to its end.
Tick ==
  /\ Ready
  /\ \/ \E i \in JobIds : wait[i] > 0
     \/ \E m \in delayq : m.left > 0
  /\ wait' = [i \in JobIds |-> Max(0, wait[i] - 1)]
  /\ timers' = {[t EXCEPT !.left = Max(0, @ - 1)] : t \in timers}
  /\ delayq' = {[m EXCEPT !.left = Max(0, @ - 1)] : m \in delayq}
  /\ ret' = NoRet
  /\ UNCHANGED <<backend, chOpen, queue, its, jobs, jobsLen, idx, mut, tx, nPub, how, delivered,
                 served>>
  /\ UNCHANGED brokerVars

\* ===================================================== in-memory backend
Mem == backend = "memory"

\* memoryQueue.Publish, first half: q.Lock() and the load of the slice header
\* that append(q.jobs, job) starts with.
MemLock(j) ==
  /\ mut = Free
  /\ jobsLen < Cap
  /\ mut' = [pc |-> "write", job |-> j, len |-> jobsLen]

\* memoryQueue.Publish called by a producer.
MemPublish(j) ==
  /\ Ready /\ Mem
  /\ j \in NextInputs
  /\ MemLock(j)
  /\ nPub' = nPub + 1
  /\ how' = [how EXCEPT ![j.ID] = How("direct", j)]
  /\ ret' = NoRet
  /\ UNCHANGED <<backend, amqpVars, jobs, jobsLen, idx, timers, tx, wait, delivered,
                 served>>
  /\ UNCHANGED brokerVars

\* append(q.jobs, job): the element store into the backing array.
MemPublishWrite ==
  /\ Ready /\ Mem
  /\ mut.pc = "write"
  /\ jobs' = [jobs EXCEPT ![mut.len + 1] = mut.job]
  /\ mut' = [mut EXCEPT !.pc = "store"]
  /\ ret' = NoRet
  /\ UNCHANGED <<backend, amqpVars, jobsLen, idx, timers, tx, nPub, wait, how, delivered,
                 served>>
  /\ UNCHANGED brokerVars

\* q.jobs = ...: the store of the new slice header; return nil; q.Unlock().
MemPublishStore ==
  /\ Ready /\ Mem
  /\ mut.pc = "store"
  /\ jobsLen' = mut.len + 1
  /\ mut' = Free
  /\ ret' = NoRet
  /\ UNCHANGED <<backend, amqpVars, jobs, idx, timers, tx, nPub, wait, how, delivered,
                 served>>
  /\ UNCHANGED brokerVars

\* memoryQueue.PublishDelayed on a queue obtained from the broker
\* (publishImmediately is false): start the timer goroutine and return nil.
MemPublishDelayed(j, d) ==
  /\ Ready /\ Mem
  /\ j \in NextInputs
  /\ timers' = timers \cup {[job |-> j, left |-> d]}
  /\ nPub' = nPub + 1
  /\ wait' = [wait EXCEPT ![j.ID] = d]
  /\ how' = [how EXCEPT ![j.ID] = How("delayed", j)]
  /\ ret' = NoRet
  /\ UNCHANGED <<backend, amqpVars, jobs, jobsLen, idx, mut, tx, delivered, served>>
  /\ UNCHANGED brokerVars

\* The goroutine of PublishDelayed: <-time.After(delay) has fired and
\* q.Publish(job) takes the lock.
MemTimerFire ==
  /\ Ready /\ Mem
  /\ \E t \in timers :
       /\ t.left = 0
       /\ MemLock(t.job)
       /\ timers' = timers \ {t}
  /\ ret' = NoRet
  /\ UNCHANGED <<backend, amqpVars, jobs, jobsLen, idx, tx, nPub, wait, how, delivered,
                 served>>
  /\ UNCHANGED brokerVars

\* Ghost: the entry of how for a job published by the running callback.
TxPending(j) ==
  [g |-> IF \A i \in JobIds : how[i].st # "pending" THEN j.ID
         ELSE CHOOSE i \in JobIds : how[i].st = "pending" /\ how[i].g = i,
   st |-> "pending", rq |-> FALSE, raw |-> j.raw]

\* Ghost: how once the running transaction has ended in state st.
TxEnded(st) ==
  [i \in JobIds |-> IF how[i].st = "pending" THEN [how[i] EXCEPT !.st = st]
                                               ELSE how[i]]

\* memoryQueue.Transaction: txQ is created (publishImmediately is true) and
\* the callback starts.
MemTxBegin ==
  /\ Ready /\ Mem
  /\ tx.pc \in {"idle", "returned"}
  /\ tx' = [pc |-> "cb", jobs |-> << >>, len |-> 0, w |-> 0]
  /\ ret' = NoRet
  /\ UNCHANGED <<backend, amqpVars, memVars, nPub, wait, how, delivered, served>>
  /\ UNCHANGED brokerVars

\* The callback calls txQ.Publish(j): txQ is private to the callback, so the
\* locked append to the scratch sequence is one step.
MemTxPublish(j) ==
  /\ Ready /\ Mem
  /\ tx.pc = "cb"
  /\ j \in NextInputs
  /\ Len(tx.jobs) < Cap
  /\ tx' = [tx EXCEPT !.jobs = Append(@, j)]
  /\ nPub' = nPub + 1
  /\ how' = [how EXCEPT ![j.ID] = TxPending(j)]
  /\ ret' = NoRet
  /\ UNCHANGED <<backend, amqpVars, memVars, wait, delivered, served>>
  /\ UNCHANGED brokerVars

\* The callback calls txQ.PublishDelayed(j, d): publishImmediately is true,
\* so it is q.Publish(job) on the scratch queue, whatever the delay.
MemTxPublishDelayed(j, d) ==
  /\ Ready /\ Mem
  /\ tx.pc = "cb"
  /\ j \in NextInputs
  /\ Len(tx.jobs) < Cap
  /\ tx' = [tx EXCEPT !.jobs = Append(@, j)]
  /\ nPub' = nPub + 1
  /\ how' = [how EXCEPT ![j.ID] = TxPending(j)]
  /\ ret' = NoRet
  /\ UNCHANGED <<backend, amqpVars, memVars, wait, delivered, served>>
  /\ UNCHANGED brokerVars

\* The callback returns.  On an error Transaction returns nil at once;
\* otherwise append(q.jobs, txQ.jobs...) begins by loading the slice header
\* of q.jobs, without taking the lock.
MemTxReturn(cbErr) ==
  /\ Ready /\ Mem
  /\ tx.pc = "cb"
  /\ IF cbErr # ErrNil
       THEN /\ tx' = TxReturned
            /\ how' = TxEnded("aborted")
       ELSE /\ jobsLen + Len(tx.jobs) <= Cap
            /\ tx' = [tx EXCEPT !.pc = "write", !.len = jobsLen]
            /\ UNCHANGED how
  /\ ret' = NoRet
  /\ UNCHANGED <<backend, amqpVars, memVars, nPub, wait, delivered, served>>
  /\ UNCHANGED brokerVars

\* append(q.jobs, txQ.jobs...): the copy of the next element into the backing
\* array of q.jobs, still without the lock.
MemTxWrite ==
  /\ Ready /\ Mem
  /\ tx.pc = "write"
  /\ tx.w < Len(tx.jobs)
  /\ jobs' = [jobs EXCEPT ![tx.len + tx.w + 1] = tx.jobs[tx.w + 1]]
  /\ tx' = [tx EXCEPT !.w = @ + 1]
  /\ ret' = NoRet
  /\ UNCHANGED <<backend, amqpVars, jobsLen, idx, mut, timers, nPub, wait, how, delivered,
                 served>>
  /\ UNCHANGED brokerVars

\* q.jobs = ...: the store of the new slice header, and return nil.
MemTxStore ==
  /\ Ready /\ Mem
  /\ tx.pc = "write"
  /\ tx.w = Len(tx.jobs)
  /\ jobsLen' = tx.len + Len(tx.jobs)
  /\ tx' = TxReturned
  /\ how' = TxEnded("committed")
  /\ ret' = NoRet
  /\ UNCHANGED <<backend, amqpVars, jobs, idx, mut, timers, nPub, wait, delivered, served>>
  /\ UNCHANGED brokerVars

\* memoryQueue.Consume: the iterator is three pointers, to the queue's jobs,
\* idx and lock; it has no state of its own.
MemConsume(i) ==
  /\ Ready /\ Mem
  /\ ret' = NoRet
  /\ UNCHANGED varsButRet
  /\ UNCHANGED brokerVars

\* Variant of MemNextSlot: (*i.jobs)[len(*i.jobs)-1], the newest job.
MemNextSlotNewest == jobsLen

\* The slot of the backing array (slots count from 1) that Next reads:
\* (*i.jobs)[*i.idx].
MemNextSlot == idx + 1

\* Variant of MemNextIdx: the increment is missing.
MemNextIdxStuck == idx

\* (*i.idx)++
MemNextIdx == idx + 1

\* memoryJobIter.Next, under the queue's lock.
MemNext(i) ==
  /\ Ready /\ Mem
  /\ mut = Free
  /\ IF jobsLen <= idx
       THEN /\ ret' = [op |-> "Next", job |-> NilJob, err |-> ErrNil]
            /\ UNCHANGED <<jobs, idx, delivered, served>>
       ELSE LET r == [jobs[MemNextSlot] EXCEPT !.tag = 1,
                                               !.acknowledger = "mockAcknowledger"] IN
            /\ jobs' = [jobs EXCEPT ![MemNextSlot] = r]
            /\ idx' = MemNextIdx
            /\ delivered' = Append(delivered, r.ID)
            /\ served' = served \cup {i}
            /\ ret' = [op |-> "Next", job |-> r, err |-> ErrNil]
  /\ UNCHANGED <<backend, amqpVars, jobsLen, mut, timers, tx, nPub, wait, how>>
  /\ UNCHANGED brokerVars

\* memoryJobIter.Close: return nil; nothing changes.
MemClose(i) ==
  /\ Ready /\ Mem
  /\ ret' = NoRet
  /\ UNCHANGED varsButRet
  /\ UNCHANGED brokerVars


\* =============================================== transport-backed backend
Amqp == backend = "amqp"

ErrTransport == "transport error"
ErrOpenChannel == "failed to open a channel"

\* uint8(j.Priority): the transport's priority field has 8 bits.
Uint8(x) == x % 256

\* The amqp.Publishing that Publish and PublishDelayed build from a job.
Publishing(j) ==
  [ MessageId   |-> j.ID,
    Priority    |-> Uint8(j.Priority),
    Timestamp   |-> j.Timestamp,
    ContentType |-> j.contentType,
    Body        |-> j.raw ]

\* Transport: a message as carried on the wire.  The timestamp property is a
\* count of whole seconds; the other properties and the body go as they are.
Wire(p) == [p EXCEPT !.Timestamp = [sec |-> @.sec, nsec |-> 0]]

\* The amqp.Delivery a consumer's channel receives for a message: the
\* envelope as carried, and the channel's next delivery tag.
Delivery(m, tag) ==
  [ MessageId   |-> m.MessageId,
    Priority    |-> m.Priority,
    Timestamp   |-> m.Timestamp,
    ContentType |-> m.ContentType,
    Body        |-> m.Body,
    DeliveryTag |-> tag ]

\* The message a delivery was made from.
Message(d) ==
  [ MessageId |-> d.MessageId, Priority |-> d.Priority, Timestamp |-> d.Timestamp,
    ContentType |-> d.ContentType, Body |-> d.Body ]

\* The zero amqp.Delivery, as received from a closed Go channel.
ZeroDelivery ==
  [ MessageId |-> 0, Priority |-> 0, Timestamp |-> ZeroTime, ContentType |-> "",
    Body |-> << >>, DeliveryTag |-> 0 ]

\* fromDelivery: the Job rebuilt from a delivery.
fromDelivery(d) ==
  [ ID           |-> d.MessageId,
    Priority     |-> d.Priority,
    Timestamp    |-> d.Timestamp,
    contentType  |-> d.ContentType,
    raw          |-> d.Body,
    tag          |-> d.DeliveryTag,
    acknowledger |-> "AMQPAcknowledger" ]

\* j == nil || len(j.raw) == 0, as tested by AMQPQueue.Publish.
PublishRejects(j) == j = NilJob \/ Len(j.raw) = 0

\* Variant of PublishDelayedRejects: no test at all.
PublishDelayedRejectsNothing(j) == FALSE

\* j == nil || len(j.raw) == 0, as tested by AMQPQueue.PublishDelayed.
PublishDelayedRejects(j) == j = NilJob \/ Len(j.raw) = 0

\* ttl := delay / time.Millisecond, an integer division.
DelayTTL(d) == d \div Millisecond

\* What a publish operation of the transport-backed queue may be handed.
AmqpInputs == IF nPub < MaxPub THEN JobInputs(nPub + 1) \cup {NilJob} ELSE {}

\* AMQPQueue.Publish on a queue obtained from the broker.  A transport
\* operation on a closed channel fails; one that fails on an open channel
\* closes the channel.
AmqpPublish(j, ok) ==
  /\ Ready /\ Amqp
  /\ j \in AmqpInputs
  /\ nPub' = nPub + 1
  /\ IF PublishRejects(j)
       THEN /\ ret' = [op |-> "Publish", job |-> j, err |-> ErrEmptyJob, ops |-> 0]
            /\ UNCHANGED <<chOpen, queue, how>>
       ELSE IF chOpen /\ ok
       THEN /\ queue' = Append(queue, Wire(Publishing(j)))
            /\ how' = [how EXCEPT ![j.ID] = How("direct", j)]
            /\ ret' = NoRet
            /\ UNCHANGED chOpen
       ELSE /\ chOpen' = FALSE
            /\ how' = [how EXCEPT ![j.ID] = How("failed", j)]
            /\ ret' = [op |-> "Publish", job |-> j, err |-> ErrTransport, ops |-> 1]
            /\ UNCHANGED queue
  /\ UNCHANGED <<backend, memVars, delayq, its, tx, wait, delivered, served>>
  /\ UNCHANGED brokerVars

\* AMQPQueue.PublishDelayed on a queue obtained from the broker: the transient
\* queue is declared with the TTL, then the job is published into it.  out
\* says how far the transport lets the call get.
AmqpPublishDelayed(j, d, out) ==
  /\ Ready /\ Amqp
  /\ j \in AmqpInputs
  /\ nPub' = nPub + 1
  /\ IF PublishDelayedRejects(j)
       THEN /\ ret' = [op |-> "PublishDelayed", job |-> j, err |-> ErrEmptyJob, ops |-> 0]
            /\ UNCHANGED <<chOpen, delayq, how, wait>>
       ELSE IF chOpen /\ out = "ok"
       THEN /\ delayq' = delayq \cup {[dest |-> "delay", msg |-> Wire(Publishing(j)),
                                       left |-> DelayTTL(d) * Millisecond]}
            /\ how' = [how EXCEPT ![j.ID] = How("delayed", j)]
            /\ wait' = [wait EXCEPT ![j.ID] = d]
            /\ ret' = NoRet
            /\ UNCHANGED chOpen
       ELSE /\ chOpen' = FALSE
            /\ how' = [how EXCEPT ![j.ID] = How("failed", j)]
            /\ ret' = [op |-> "PublishDelayed", job |-> j, err |-> ErrTransport,
                       ops |-> IF chOpen /\ out = "publish" THEN 2 ELSE 1]
            /\ UNCHANGED <<delayq, wait>>
  /\ UNCHANGED <<backend, memVars, queue, its, tx, delivered, served>>
  /\ UNCHANGED brokerVars

\* Transport: the TTL of a message in its transient queue has run out, and the
\* x-dead-letter-routing-key sends it to the destination queue.
DeadLetter ==
  /\ Ready /\ Amqp
  /\ \E m \in delayq :
       /\ m.left = 0
       /\ queue' = Append(queue, m.msg)
       /\ delayq' = delayq \ {m}
  /\ ret' = NoRet
  /\ UNCHANGED <<backend, memVars, chOpen, its, tx, nPub, wait, how, delivered,
                 served>>
  /\ UNCHANGED brokerVars

\* AMQPQueue.Transaction up to the call of the callback: a channel is opened
\* on the connection and put in transaction mode.
AmqpTxBegin(out) ==
  /\ Ready /\ Amqp
  /\ tx.pc \in {"idle", "returned"}
  /\ IF out = "ok"
       THEN /\ tx' = [pc |-> "cb", jobs |-> << >>, len |-> 0, w |-> 0]
            /\ ret' = NoRet
       ELSE /\ tx' = TxReturned
            /\ ret' = [op |-> "Transaction", called |-> FALSE, cbErr |-> ErrNil,
                       txErr |-> ErrNil, issued |-> "none",
                       err |-> IF out = "open" THEN ErrOpenChannel ELSE ErrTransport]
  /\ UNCHANGED <<backend, memVars, amqpVars, nPub, wait, how, delivered, served>>
  /\ UNCHANGED brokerVars

\* The callback calls txQueue.Publish(j): the transport buffers the message
\* on the transactional channel.
AmqpTxPublish(j) ==
  /\ Ready /\ Amqp
  /\ tx.pc = "cb"
  /\ j \in AmqpInputs
  /\ nPub' = nPub + 1
  /\ IF PublishRejects(j)
       THEN /\ ret' = [op |-> "Publish", job |-> j, err |-> ErrEmptyJob, ops |-> 0]
            /\ UNCHANGED <<tx, how>>
       ELSE /\ tx' = [tx EXCEPT !.jobs = Append(@, [dest |-> "queue",
                                      msg |-> Wire(Publishing(j)), left |-> 0])]
            /\ how' = [how EXCEPT ![j.ID] = TxPending(j)]
            /\ ret' = NoRet
  /\ UNCHANGED <<backend, memVars, amqpVars, wait, delivered, served>>
  /\ UNCHANGED brokerVars

\* The callback calls txQueue.PublishDelayed(j, d): the transient queue is
\* declared at once, the publish into it is buffered.
AmqpTxPublishDelayed(j, d) ==
  /\ Ready /\ Amqp
  /\ tx.pc = "cb"
  /\ j \in AmqpInputs
  /\ nPub' = nPub + 1
  /\ IF PublishDelayedRejects(j)
       THEN /\ ret' = [op |-> "PublishDelayed", job |-> j, err |-> ErrEmptyJob, ops |-> 0]
            /\ UNCHANGED <<tx, how>>
       ELSE /\ tx' = [tx EXCEPT !.jobs = Append(@, [dest |-> "delay",
                                      msg |-> Wire(Publishing(j)),
                                      left |-> DelayTTL(d) * Millisecond])]
            /\ how' = [how EXCEPT ![j.ID] = TxPending(j)]
            /\ ret' = NoRet
  /\ UNCHANGED <<backend, memVars, amqpVars, wait, delivered, served>>
  /\ UNCHANGED brokerVars

\* The transaction operation AMQPQueue.Transaction issues once the callback
\* has returned cbErr.
TransactionIssues(cbErr) == IF cbErr # ErrNil THEN "rollback" ELSE "commit"

\* Variant of TransactionResult: the result of the rollback is returned, also
\* when it is nil.
TransactionResultOfRollback(cbErr, txErr) == txErr

\* What AMQPQueue.Transaction returns: cbErr is what the callback returned,
\* txErr what the rollback or commit returned.
TransactionResult(cbErr, txErr) ==
  IF cbErr # ErrNil
    THEN IF txErr # ErrNil THEN txErr ELSE cbErr
    ELSE txErr

\* The messages of a transaction's buffer that go to the given destination.
Buffered(dest) == SelectSeq(tx.jobs, LAMBDA e : e.dest = dest)

\* The callback returns cbErr; AMQPQueue.Transaction rolls back or commits
\* (ok says whether the transport lets that succeed), closes the channel and
\* returns.  A commit applies the buffer in one step; a rollback, a failed
\* commit and the close of the channel drop it.
AmqpTxReturn(cbErr, ok) ==
  LET issued == TransactionIssues(cbErr)
      txErr  == IF ok THEN ErrNil ELSE ErrTransport
      err    == TransactionResult(cbErr, txErr)
      commit == issued = "commit" /\ ok
  IN
  /\ Ready /\ Amqp
  /\ tx.pc = "cb"
  /\ tx' = TxReturned
  /\ IF commit
       THEN /\ queue' = queue \o [k \in 1 .. Len(Buffered("queue")) |->
                                    Buffered("queue")[k].msg]
            /\ delayq' = delayq \cup Range(Buffered("delay"))
       ELSE UNCHANGED <<queue, delayq>>
  /\ how' = TxEnded(IF commit THEN "committed"
                    ELSE IF cbErr # ErrNil THEN "aborted" ELSE "failed")
  /\ ret' = [op |-> "Transaction", called |-> TRUE, cbErr |-> cbErr,
             txErr |-> txErr, issued |-> issued, err |-> err]
  /\ UNCHANGED <<backend, memVars, chOpen, its, nPub, wait, delivered, served>>
  /\ UNCHANGED brokerVars

\* AMQPQueue.Consume: a channel is opened, its prefetch set to one and a
\* consumer registered; the iterator is handed out when all three succeed.
AmqpConsume(i, out) ==
  /\ Ready /\ Amqp
  /\ its[i].state = "none"
  /\ \A k \in AmqpIters : k < i => its[k].state # "none"
  /\ IF out = "ok"
       THEN its' = [its EXCEPT ![i] = [NoIter EXCEPT !.state = "active"]]
       ELSE UNCHANGED its
  /\ ret' = NoRet
  /\ UNCHANGED <<backend, memVars, chOpen, queue, delayq, tx, nPub, wait, how,
                 delivered, served>>
  /\ UNCHANGED brokerVars

\* Transport: the head of the destination queue is delivered to a registered
\* consumer that holds no unacknowledged delivery (Qos(1, 0, false)).
Deliver(i) ==
  /\ Ready /\ Amqp
  /\ its[i].state = "active"
  /\ its[i].stream = << >>
  /\ its[i].held = NoMsg
  /\ queue # << >>
  /\ its' = [its EXCEPT ![i].stream = <<Delivery(Head(queue), its[i].n + 1)>>,
                        ![i].n = @ + 1]
  /\ queue' = Tail(queue)
  /\ ret' = NoRet
  /\ UNCHANGED <<backend, memVars, chOpen, delayq, tx, nPub, wait, how, delivered,
                 served>>
  /\ UNCHANGED brokerVars

\* Variant of AmqpNextResult: d := <-i.c without the ok test.
AmqpNextResultUnchecked(ok, d) == [job |-> fromDelivery(d), err |-> ErrNil]

\* d, ok := <-i.c and what AMQPJobIter.Next makes of it.
AmqpNextResult(ok, d) ==
  IF ~ok THEN [job |-> NilJob, err |-> ErrAlreadyClosed]
         ELSE [job |-> fromDelivery(d), err |-> ErrNil]

\* AMQPJobIter.Next: the receive from the delivery stream blocks until the
\* stream has a delivery, or is closed and drained; then Next returns.  The
\* consumer is a goroutine of its own: whether its receive can proceed depends
\* on the stream alone.
AmqpNext(i) ==
  /\ Amqp
  /\ its[i].state # "none"
  /\ its[i].stream # << >> \/ its[i].state = "closed"
  /\ LET ok == its[i].stream # << >>
         d  == IF ok THEN Head(its[i].stream) ELSE ZeroDelivery
         r  == AmqpNextResult(ok, d)
     IN /\ ret' = [op |-> "Next", job |-> r.job, err |-> r.err]
        /\ IF ok
             THEN /\ its' = [its EXCEPT ![i].stream = Tail(@),
                                        ![i].held = IF its[i].state = "active"
                                                      THEN d ELSE NoMsg]
                  /\ delivered' = Append(delivered, d.MessageId)
                  /\ served' = served \cup {i}
             ELSE UNCHANGED <<its, delivered, served>>
  /\ UNCHANGED <<backend, memVars, chOpen, queue, delayq, tx, nPub, wait, how>>
  /\ UNCHANGED brokerVars

\* AMQPAcknowledger.Ack on the job the consumer holds.
AmqpAck(i) ==
  /\ Ready /\ Amqp
  /\ its[i].state = "active"
  /\ its[i].held # NoMsg
  /\ its' = [its EXCEPT ![i].held = NoMsg]
  /\ ret' = NoRet
  /\ UNCHANGED <<backend, memVars, chOpen, queue, delayq, tx, nPub, wait, how,
                 delivered, served>>
  /\ UNCHANGED brokerVars

\* Ghost: the given messages are marked as put back into the queue.
Requeued(ms) ==
  [k \in JobIds |-> IF \E m \in ms : m.MessageId = k
                      THEN [how[k] EXCEPT !.rq = TRUE] ELSE how[k]]

\* AMQPAcknowledger.Reject(requeue) on the job the consumer holds.  A message
\* is put back by Reject at most once.
AmqpReject(i, requeue) ==
  /\ Ready /\ Amqp
  /\ its[i].state = "active"
  /\ its[i].held # NoMsg
  /\ requeue => ~how[its[i].held.MessageId].rq
  /\ its' = [its EXCEPT ![i].held = NoMsg]
  /\ IF requeue
       THEN /\ queue' = <<Message(its[i].held)>> \o queue
            /\ how' = Requeued({its[i].held})
       ELSE UNCHANGED <<queue, how>>
  /\ ret' = NoRet
  /\ UNCHANGED <<backend, memVars, chOpen, delayq, tx, nPub, wait, delivered,
                 served>>
  /\ UNCHANGED brokerVars

\* The deliveries of an iterator's channel that are not acknowledged.
Unacked(i) ==
  its[i].stream \o (IF its[i].held = NoMsg THEN << >> ELSE <<its[i].held>>)

\* AMQPJobIter.Close: the consumer is cancelled, then the channel closed.  A
\* Cancel that fails (ok is FALSE) is returned at once: the channel or its
\* connection has failed, and the transport closes the channel, before Close
\* returns or after.  Either way the delivery stream ends after the
\* deliveries it holds, and the transport puts the channel's unacknowledged
\* messages back into the queue.
AmqpClose(i, ok) ==
  /\ Ready /\ Amqp
  /\ its[i].state = "active"
  /\ its' = [its EXCEPT ![i].state = "closed", ![i].held = NoMsg]
  /\ queue' = [k \in 1 .. Len(Unacked(i)) |-> Message(Unacked(i)[k])] \o queue
  /\ how' = Requeued(Range(Unacked(i)))
  /\ ret' = IF ok THEN NoRet ELSE [op |-> "Close", err |-> ErrTransport]
  /\ UNCHANGED <<backend, memVars, chOpen, delayq, tx, nPub, wait, delivered,
                 served>>
  /\ UNCHANGED brokerVars

AmqpStep ==
  \/ \E j \in AmqpInputs, ok \in BOOLEAN : AmqpPublish(j, ok)
  \/ \E j \in AmqpInputs, d \in Delays, out \in {"ok", "declare", "publish"} :
       AmqpPublishDelayed(j, d, out)
  \/ DeadLetter
  \/ \E out \in {"ok", "open", "tx"} : AmqpTxBegin(out)
  \/ \E j \in AmqpInputs : AmqpTxPublish(j)
  \/ \E j \in AmqpInputs, d \in Delays : AmqpTxPublishDelayed(j, d)
  \/ \E e \in {ErrNil, ErrCallback}, ok \in BOOLEAN : AmqpTxReturn(e, ok)
  \/ \E i \in AmqpIters, out \in {"ok", "open", "qos", "consume"} : AmqpConsume(i, out)
  \/ \E i \in AmqpIters : Deliver(i)
  \/ \E i \in AmqpIters : AmqpNext(i)
  \/ \E i \in AmqpIters : AmqpAck(i)
  \/ \E i \in AmqpIters, requeue \in BOOLEAN : AmqpReject(i, requeue)
  \/ \E i \in AmqpIters, ok \in BOOLEAN : AmqpClose(i, ok)

MemStep ==
  \/ \E j \in NextInputs : MemPublish(j)
  \/ MemPublishWrite
  \/ MemPublishStore
  \/ \E j \in NextInputs, d \in Delays : MemPublishDelayed(j, d)
  \/ MemTimerFire
  \/ MemTxBegin
  \/ \E j \in NextInputs : MemTxPublish(j)
  \/ \E j \in NextInputs, d \in Delays : MemTxPublishDelayed(j, d)
  \/ \E e \in {ErrNil, ErrCallback} : MemTxReturn(e)
  \/ MemTxWrite
  \/ MemTxStore
  \/ \E i \in Iters : MemConsume(i)
  \/ \E i \in Iters : MemNext(i)
  \/ \E i \in Iters : MemClose(i)

\* ============================================================ AMQPBroker
callVars == <<backend, memVars, amqpVars, tx, nPub, wait, how, delivered,
              served, ret>>

\* ---- transport
\* A connection closes unexpectedly, and its channels with it; the listener
\* registered with NotifyClose is sent the error.
ConnLost(g) ==
  /\ Amqp
  /\ g \in conns
  /\ conns' = conns \ {g}
  /\ chans' = chans \ {g}
  /\ connErrors' = IF watch = g /\ connErrors = "empty" THEN "error"
                   ELSE connErrors
  /\ UNCHANGED <<callVars, bconn, bch, bmut, stop, watch, sup, up, nDial, cl, h2>>

\* A channel exception: the server closes a control channel and keeps the
\* connection.
ChannelException(g) ==
  /\ Amqp
  /\ g \in chans
  /\ chans' = chans \ {g}
  /\ UNCHANGED <<callVars, bconn, bch, bmut, stop, connErrors, watch, sup, conns,
                 up, nDial, cl, h2>>

\* The server becomes unreachable, or reachable again.
Outage ==
  /\ Amqp
  /\ up' = ~up
  /\ UNCHANGED <<callVars, bconn, bch, bmut, stop, connErrors, watch, sup, conns,
                 chans, nDial, cl, h2>>

\* ---- manageConnection
SupAt(pc) == Amqp /\ sup.pc = pc
SupGoto(pc) == sup' = [sup EXCEPT !.pc = pc]

\* case err := <-b.connErrors: an error, or nil from a closed channel.
SupReceive ==
  /\ SupAt("select")
  /\ connErrors # "empty"
  /\ sup' = [sup EXCEPT !.pc = "lock", !.err = (connErrors = "error")]
  /\ connErrors' = "closed"
  /\ UNCHANGED <<callVars, bconn, bch, bmut, stop, watch, conns, chans, up, nDial,
                 cl, h2>>

\* case <-b.stop: return
SupStop ==
  /\ SupAt("select")
  /\ stop
  /\ SupGoto("stopped")
  /\ UNCHANGED <<callVars, bconn, bch, bmut, stop, connErrors, watch, conns, chans,
                 up, nDial, cl, h2>>

\* b.mut.Lock(); if err != nil
SupLock ==
  /\ SupAt("lock")
  /\ bmut = "free"
  /\ bmut' = "supervisor"
  /\ SupGoto(IF sup.err THEN "dial" ELSE "unlock")
  /\ UNCHANGED <<callVars, bconn, bch, stop, connErrors, watch, conns, chans, up,
                 nDial, cl, h2>>

\* connect, first loop: amqp.Dial succeeds when the server can be reached.
SupDial ==
  /\ SupAt("dial")
  /\ up => nDial < MaxGen
  /\ IF up
       THEN /\ nDial' = nDial + 1
            /\ conns' = conns \cup {nDial + 1}
            /\ sup' = [sup EXCEPT !.pc = "chan", !.conn = nDial + 1]
       ELSE /\ SupGoto("dialwait")
            /\ UNCHANGED <<nDial, conns>>
  /\ UNCHANGED <<callVars, bconn, bch, bmut, stop, connErrors, watch, chans, up,
                 cl, h2>>

\* connect, second loop: conn.Channel() succeeds on an open connection.
SupChannel ==
  /\ SupAt("chan")
  /\ IF sup.conn \in conns
       THEN /\ chans' = chans \cup {sup.conn}
            /\ SupGoto("storeconn")
       ELSE /\ SupGoto("chanwait")
            /\ UNCHANGED chans
  /\ UNCHANGED <<callVars, bconn, bch, bmut, stop, connErrors, watch, conns, up,
                 nDial, cl, h2>>

\* <-time.After(1 * time.Second): back to the attempt that failed.
SupBackoff ==
  /\ SupAt("dialwait") \/ SupAt("chanwait")
  /\ SupGoto(IF sup.pc = "dialwait" THEN "dial" ELSE "chan")
  /\ UNCHANGED <<callVars, bconn, bch, bmut, stop, connErrors, watch, conns, chans,
                 up, nDial, cl, h2>>

\* b.conn, b.ch = connect(url): the two stores, one after the other.
SupStoreConn ==
  /\ SupAt("storeconn")
  /\ bconn' = sup.conn
  /\ SupGoto("storech")
  /\ UNCHANGED <<callVars, bch, bmut, stop, connErrors, watch, conns, chans, up,
                 nDial, cl, h2>>

SupStoreCh ==
  /\ SupAt("storech")
  /\ bch' = sup.conn
  /\ SupGoto("notify")
  /\ UNCHANGED <<callVars, bconn, bmut, stop, connErrors, watch, conns, chans, up,
                 nDial, cl, h2>>

\* b.connErrors = make(chan *amqp.Error); b.conn.NotifyClose(b.connErrors):
\* a connection that is closed already closes the listener at once.
SupNotify ==
  /\ SupAt("notify")
  /\ connErrors' = IF bconn \in conns THEN "empty" ELSE "closed"
  /\ watch' = bconn
  /\ SupGoto("unlock")
  /\ UNCHANGED <<callVars, bconn, bch, bmut, stop, conns, chans, up, nDial, cl, h2>>

\* b.mut.Unlock()
SupUnlock ==
  /\ SupAt("unlock")
  /\ bmut' = "free"
  /\ SupGoto("select")
  /\ UNCHANGED <<callVars, bconn, bch, stop, connErrors, watch, conns, chans, up,
                 nDial, cl, h2>>

SupStep ==
  \/ SupReceive
  \/ SupStop
  \/ SupLock
  \/ SupDial
  \/ SupChannel
  \/ SupBackoff
  \/ SupStoreConn
  \/ SupStoreCh
  \/ SupNotify
  \/ SupUnlock

\* ---- the calls of a client of the broker, one at a time
\* connection() and channel(): Lock, read, Unlock. Nothing else happens
\* inside, so the accessor is one step that needs the lock to be free.
Accessor == bmut = "free"
Calling(op, pc) == Amqp /\ cl.op = op /\ cl.pc = pc
Return(err) == cl' = [cl EXCEPT !.pc = "returned", !.err = err]
clVars == <<callVars, bconn, bch, bmut, stop, connErrors, watch, sup, conns,
            chans, up, nDial, h2>>

\* AMQPQueue.Publish of a job that is not empty is called ...
PublishCall ==
  /\ Amqp
  /\ cl = NoCall
  /\ cl' = [NoCall EXCEPT !.op = "Publish", !.pc = "channel", !.since = bch]
  /\ UNCHANGED clVars

\* The channel Publish publishes on.
PublishChannelCached == FirstGen
PublishChannel == bch

\* ... reads q.conn.channel() ...
PublishRead ==
  /\ Calling("Publish", "channel")
  /\ Accessor
  /\ cl' = [cl EXCEPT !.pc = "publish", !.ch = PublishChannel]
  /\ UNCHANGED clVars

\* ... and publishes on that channel: an error when the channel is closed.
PublishSend ==
  /\ Calling("Publish", "publish")
  /\ Return(IF cl.ch \in chans THEN ErrNil ELSE ErrTransport)
  /\ UNCHANGED clVars

\* AMQPQueue.Transaction is called ...
TransactionCall ==
  /\ Amqp
  /\ cl = NoCall
  /\ cl' = [NoCall EXCEPT !.op = "Transaction", !.pc = "connection", !.since = bch]
  /\ UNCHANGED clVars

\* ... opens its channel on q.conn.connection() and starts the transaction ...
TransactionOpen ==
  /\ Calling("Transaction", "connection")
  /\ Accessor
  /\ IF bconn \in conns
       THEN cl' = [cl EXCEPT !.pc = "scope", !.ch = bconn]
       ELSE Return(ErrOpenChannel)
  /\ UNCHANGED clVars

\* ... builds the scoped queue: conn: q.conn.connection(), ch: ch ...
TransactionScope ==
  /\ Calling("Transaction", "scope")
  /\ Accessor
  /\ cl' = [cl EXCEPT !.pc = "callback", !.conn = bconn]
  /\ UNCHANGED clVars

\* ... runs the callback, ends the transaction and returns.
TransactionEnd ==
  /\ Calling("Transaction", "callback")
  /\ Return(IF cl.ch \in conns THEN ErrNil ELSE ErrTransport)
  /\ UNCHANGED clVars

\* AMQPBroker.Queue reads b.ch, without the lock. While the supervisor is
\* storing the new pair the read finds the old channel or the new one.
QueueChannels ==
  IF sup.pc \in {"storeconn", "storech"} THEN {bch, sup.conn} ELSE {bch}

QueueRead ==
  /\ Amqp
  /\ cl = NoCall
  /\ \E c \in QueueChannels :
       cl' = [NoCall EXCEPT !.op = "Queue", !.pc = "declare", !.ch = c,
                            !.since = bch, !.racy = (bmut = "supervisor")]
  /\ UNCHANGED clVars

\* ... and declares the queue on it.
QueueDeclare ==
  /\ Calling("Queue", "declare")
  /\ Return(IF cl.ch \in chans THEN ErrNil ELSE ErrTransport)
  /\ UNCHANGED clVars

\* AMQPBroker.Close: close(b.stop), once ...
CloseCall ==
  /\ Amqp
  /\ cl = NoCall
  /\ ~stop
  /\ stop' = TRUE
  /\ cl' = [NoCall EXCEPT !.op = "Close", !.pc = "channel", !.since = bch]
  /\ UNCHANGED <<callVars, bconn, bch, bmut, connErrors, watch, sup, conns, chans,
                 up, nDial, h2>>

\* ... b.channel() ...
CloseReadChannel ==
  /\ Calling("Close", "channel")
  /\ Accessor
  /\ cl' = [cl EXCEPT !.pc = "chclose", !.ch = bch]
  /\ UNCHANGED clVars

\* ... .Close(): an error, and the return of it, when the channel is closed
\* already ...
CloseChannel ==
  /\ Calling("Close", "chclose")
  /\ IF cl.ch \in chans
       THEN cl' = [cl EXCEPT !.pc = "connection"]
       ELSE Return(ErrTransport)
  /\ chans' = chans \ {cl.ch}
  /\ UNCHANGED <<callVars, bconn, bch, bmut, stop, connErrors, watch, sup, conns,
                 up, nDial, h2>>

\* ... b.connection() ...
CloseReadConnection ==
  /\ Calling("Close", "connection")
  /\ Accessor
  /\ cl' = [cl EXCEPT !.pc = "connclose", !.conn = bconn]
  /\ UNCHANGED clVars

\* ... .Close(): the connection and its channels close, and the listener
\* registered with NotifyClose is closed without an error.
CloseConnection ==
  /\ Calling("Close", "connclose")
  /\ Return(IF cl.conn \in conns THEN ErrNil ELSE ErrTransport)
  /\ conns' = conns \ {cl.conn}
  /\ chans' = chans \ {cl.conn}
  /\ connErrors' = IF watch = cl.conn /\ cl.conn \in conns /\ connErrors = "empty"
                   THEN "closed" ELSE connErrors
  /\ UNCHANGED <<callVars, bconn, bch, bmut, stop, watch, sup, up, nDial, h2>>

\* The dedicated channel of the call is open: nothing has closed it, nor
\* its connection.
DedicatedOpen == cl.dch = "open" /\ cl.conn \in conns
\* What an operation that fails can leave of the channel it was made on: the
\* error does not tell whether the channel has been closed.
FailedChannel == {"open", "closed"}

\* AMQPQueue.Consume is called ...
ConsumeCall ==
  /\ Amqp
  /\ cl = NoCall
  /\ cl' = [NoCall EXCEPT !.op = "Consume", !.pc = "connection", !.since = bch]
  /\ UNCHANGED clVars

\* ... opens its channel on q.conn.connection() ...
ConsumeOpen ==
  /\ Calling("Consume", "connection")
  /\ Accessor
  /\ IF bconn \in conns
       THEN cl' = [cl EXCEPT !.pc = "qos", !.conn = bconn, !.dch = "open"]
       ELSE Return(ErrOpenChannel)
  /\ UNCHANGED clVars

\* ... ch.Qos(1, 0, false): on an error, return nil, err ...
ConsumeQos(out) ==
  /\ Calling("Consume", "qos")
  /\ IF out = "ok"
       THEN /\ DedicatedOpen
            /\ cl' = [cl EXCEPT !.pc = "register"]
       ELSE cl' = [cl EXCEPT !.pc = "returned", !.err = ErrTransport, !.dch = out]
  /\ UNCHANGED clVars

\* ... ch.Consume(...): on an error, return nil, err; else the iterator is
\* returned, and the client holds it.
ConsumeRegister(out) ==
  /\ Calling("Consume", "register")
  /\ IF out = "ok"
       THEN /\ DedicatedOpen
            /\ cl' = [cl EXCEPT !.pc = "active"]
       ELSE cl' = [cl EXCEPT !.pc = "returned", !.err = ErrTransport, !.dch = out]
  /\ UNCHANGED clVars

\* AMQPJobIter.Close: i.ch.Cancel(i.id, false), on an error return err; else
\* return i.ch.Close().
IterClose(out) ==
  /\ Calling("Consume", "active")
  /\ IF out = "ok"
       THEN /\ DedicatedOpen
            /\ cl' = [cl EXCEPT !.pc = "returned", !.dch = "closed"]
       ELSE cl' = [cl EXCEPT !.pc = "returned", !.err = ErrTransport, !.dch = out]
  /\ UNCHANGED clVars

\* The call has returned; the client goes on to its next call.
CallReturned ==
  /\ cl.pc = "returned"
  /\ cl' = NoCall
  /\ UNCHANGED clVars

\* ---- memoryBroker
\* memoryBroker.Queue, called a second time with the name of the queue.
MemBrokerQueue ==
  /\ Mem
  /\ cl = NoCall
  /\ ~h2.made
  /\ h2' = [made |-> TRUE, jobs |-> << >>, idx |-> 0]
  /\ UNCHANGED <<callVars, bconn, bch, bmut, stop, connErrors, watch, sup, conns,
                 chans, up, nDial, cl>>

\* Consume().Next() on the queue the second call returned.
MemQueueNext ==
  /\ Mem
  /\ cl = NoCall
  /\ h2.made
  /\ IF Len(h2.jobs) <= h2.idx
       THEN /\ cl' = [NoCall EXCEPT !.op = "Next", !.pc = "returned", !.job = NilJob]
            /\ UNCHANGED h2
       ELSE /\ cl' = [NoCall EXCEPT !.op = "Next", !.pc = "returned",
                                    !.job = h2.jobs[h2.idx + 1]]
            /\ h2' = [h2 EXCEPT !.idx = @ + 1]
  /\ UNCHANGED <<callVars, bconn, bch, bmut, stop, connErrors, watch, sup, conns,
                 chans, up, nDial>>

ClientStep ==
  \/ PublishCall
  \/ PublishRead
  \/ PublishSend
  \/ TransactionCall
  \/ TransactionOpen
  \/ TransactionScope
  \/ TransactionEnd
  \/ QueueRead
  \/ QueueDeclare
  \/ CloseCall
  \/ CloseReadChannel
  \/ CloseChannel
  \/ CloseReadConnection
  \/ CloseConnection
  \/ ConsumeCall
  \/ ConsumeOpen
  \/ \E out \in {"ok"} \cup FailedChannel : ConsumeQos(out)
  \/ \E out \in {"ok"} \cup FailedChannel : ConsumeRegister(out)
  \/ \E out \in {"ok"} \cup FailedChannel : IterClose(out)
  \/ CallReturned

\* The caller takes what its call returned.
Returned ==
  /\ ret # NoRet
  /\ ret' = NoRet
  /\ UNCHANGED varsButRet

Next == Tick \/ MemStep \/ AmqpStep \/ Returned

Spec == Init /\ [][Next]_vars

\* A consumer of the transport-backed queue with producers that call Publish.
\* The goroutine that calls Next is scheduled: a receive that can proceed
\* does proceed.
ConsumerInit == Init /\ Amqp

ConsumerNext ==
  \/ \E j \in AmqpInputs, ok \in BOOLEAN : AmqpPublish(j, ok)
  \/ \E i \in AmqpIters, out \in {"ok", "open", "qos", "consume"} : AmqpConsume(i, out)
  \/ \E i \in AmqpIters : Deliver(i)
  \/ \E i \in AmqpIters : AmqpNext(i)
  \/ \E i \in AmqpIters : AmqpAck(i)
  \/ \E i \in AmqpIters, requeue \in BOOLEAN : AmqpReject(i, requeue)
  \/ \E i \in AmqpIters, ok \in BOOLEAN : AmqpClose(i, ok)
  \/ Returned

FairSpec ==
  /\ ConsumerInit
  /\ [][ConsumerNext]_vars
  /\ \A i \in AmqpIters : WF_vars(AmqpNext(i))

\* A broker, its supervisor and a client that makes one call after another:
\* of the transport-backed broker while connections come and go, of the
\* in-memory broker with producers that call Publish. The supervisor is a
\* goroutine of its own: a step of it that can be taken is taken.
BrokerNext ==
  \/ \E g \in 1 .. MaxGen : ConnLost(g)
  \/ \E g \in 1 .. MaxGen : ChannelException(g)
  \/ Outage
  \/ SupStep
  \/ ClientStep
  \/ MemBrokerQueue
  \/ MemQueueNext
  \/ \E j \in NextInputs : MemPublish(j)
  \/ MemPublishWrite
  \/ MemPublishStore

BrokerSpec == Init /\ [][BrokerNext]_vars /\ WF_vars(SupStep)

\* ================================================================ claims
\* The IDs of the jobs that are or were consumable from the destination queue.
Consumable ==
  IF Mem THEN VisibleIds
  ELSE {m.MessageId : m \in Range(queue)} \cup {m.msg.MessageId : m \in delayq}
       \cup UNION {{d.MessageId : d \in Range(Unacked(i))} : i \in AmqpIters}
       \cup Range(delivered)

\* A nil job, or one whose payload has length zero.
EmptyJob(j) == j = NilJob \/ Len(j.raw) = 0

\* The messages the transport holds or has handed out, buffered ones included.
InTransport ==
  Range(queue) \cup {m.msg : m \in delayq} \cup {e.msg : e \in Range(tx.jobs)}
  \cup UNION {{Message(d) : d \in Range(Unacked(i))} : i \in AmqpIters}

\* C1: on the transport-backed queue, Publish and PublishDelayed handed a nil
\* job or a job with an empty payload return EmptyJobError without any
\* transport operation (no queue declaration, no publish), so that no message
\* with an empty body ever reaches the transport.
C1_EmptyJobRejected ==
  Amqp =>
    /\ (ret.op \in {"Publish", "PublishDelayed"} /\ EmptyJob(ret.job)) =>
         (ret.err = ErrEmptyJob /\ ret.ops = 0)
    /\ \A m \in InTransport : Len(m.Body) > 0

\* PublishDelayed has just rejected a non-nil job with an empty payload, with
\* the priority and content type of the second job.
C1_Witness ==
  /\ Amqp
  /\ ret.op = "PublishDelayed"
  /\ ret.job = NewJobOf(2, << >>)
  /\ ret.err = ErrEmptyJob

\* C2: on the in-memory backend no job with an empty payload is ever in the
\* queue's job sequence or in a transaction's scratch sequence (publishing it
\* fails with EmptyJobError).
C2_NoEmptyJobQueued ==
  Mem => /\ \A k \in 1 .. jobsLen : Len(jobs[k].raw) > 0
         /\ \A k \in 1 .. Len(tx.jobs) : Len(tx.jobs[k].raw) > 0

\* C3: round trip.  A job that Next returns, published with a non-empty
\* payload, has the ID, Priority, Timestamp, ContentType and payload of the
\* job as it was published; its tag and acknowledger are populated.
C3_RoundTrip ==
  (ret.op = "Next" /\ ret.job.ID \in JobIds /\ Len(how[ret.job.ID].raw) > 0) =>
    /\ Envelope(ret.job) = Envelope(NewJobOf(ret.job.ID, how[ret.job.ID].raw))
    /\ ret.job.tag > 0
    /\ ret.job.acknowledger # NoAck

\* C4: transaction atomicity.  No job of a transaction whose callback failed
\* is consumable; every job of a transaction whose callback returned nil and
\* that returned nil is consumable; and the jobs of one transaction are
\* consumable all together or not at all.
C4_TransactionAtomic ==
  /\ \A i \in JobIds : how[i].st = "aborted" => i \notin Consumable
  /\ \A i \in JobIds : how[i].st = "committed" => i \in Consumable
  /\ \A i, k \in JobIds :
       (how[i].g > 0 /\ how[i].g = how[k].g) => (i \in Consumable <=> k \in Consumable)

\* C5: AMQPQueue.Transaction whose callback returned an error e issues a
\* rollback (never a commit) and returns e, or the rollback's error when the
\* rollback fails; one whose callback returned nil issues a commit (never a
\* rollback) and returns what the commit returned.
C5_TransactionResult ==
  (Amqp /\ ret.op = "Transaction" /\ ret.called) =>
    IF ret.cbErr # ErrNil
      THEN /\ ret.issued = "rollback"
           /\ ret.err = (IF ret.txErr = ErrNil THEN ret.cbErr ELSE ret.txErr)
      ELSE /\ ret.issued = "commit"
           /\ ret.err = ret.txErr

\* The callback failed and so did the rollback: the rollback's error came back.
C5_Witness ==
  /\ Amqp
  /\ ret.op = "Transaction"
  /\ ret.cbErr = ErrCallback
  /\ ret.txErr = ErrTransport
  /\ ret.err = ErrTransport

\* The places a job published on the in-memory queue can be in: a timer, the
\* hands of a Publish call, a slot of the backing array.
MemHeldIds ==
  {t.job.ID : t \in timers} \cup {jobs[k].ID : k \in 1 .. Cap}
  \cup (IF mut.pc = "free" THEN {} ELSE {mut.job.ID})

\* C6: a job published with PublishDelayed(job, d) on a queue is not returned
\* by Next before d has elapsed, and it stays on its way to the consumers: it
\* is never dropped before a Next has returned it.
C6_DelayedDelivery ==
  /\ \A k \in 1 .. Len(delivered) :
       how[delivered[k]].st = "delayed" => wait[delivered[k]] = 0
  /\ \A i \in JobIds :
       how[i].st = "delayed" =>
         i \in (IF Mem THEN MemHeldIds \cup Range(delivered) ELSE Consumable)

\* C7: no job is returned by more than one Next call, whichever iterators
\* make the calls, unless the transport has put it back into the queue.
C7_DeliveredAtMostOnce ==
  \A a, b \in 1 .. Len(delivered) :
    (a # b /\ delivered[a] = delivered[b]) => how[delivered[a]].rq

\* Both iterators of the in-memory queue have been handed a job.
C7_Witness == Mem /\ served = Iters /\ Len(delivered) >= 2

\* Only Publish calls on the queue have been made so far: no PublishDelayed
\* and no Transaction.
OnlySequentialPublishes ==
  /\ tx.pc = "idle"
  /\ \A i \in JobIds : how[i].st \in {"none", "direct"}

\* C8: in the in-memory backend the jobs of sequential Publish calls are
\* returned by Next in the order of the calls (IDs count the calls), each
\* once, whatever their priorities.
C8_MemoryFIFO ==
  (Mem /\ OnlySequentialPublishes) => \A k \in 1 .. Len(delivered) : delivered[k] = k

\* Job 1 (priority 5) then job 2 (priority 1) were published and consumed.
C8_Witness ==
  /\ Mem /\ OnlySequentialPublishes
  /\ delivered = <<1, 2>>
  /\ PriorityOf(1) = 5 /\ PriorityOf(2) = 1

\* What Next of the transport-backed iterator may return: a job made of a
\* delivery with a nil error, or, the iterator closed and its stream drained,
\* no job with IteratorClosedError.
NextReturnsJobOrClosed ==
  (Amqp /\ ret.op = "Next") =>
    \/ ret.job.ID \in JobIds /\ ret.err = ErrNil
    \/ /\ ret.job = NilJob /\ ret.err = ErrAlreadyClosed
       /\ \E i \in AmqpIters : its[i].state = "closed" /\ its[i].stream = << >>

C10_NextJobOrClosed ==
  ret.op = "Next" =>
    \/ ret.job # NilJob /\ ret.err = ErrNil
    \/ ret.job = NilJob /\ ret.err = ErrAlreadyClosed
\* C11: a Publish never uses a channel older than the one that was the
\* broker's when the call was issued, so a Publish issued after a completed
\* reconnection uses the channel of the new connection; and a Publish
\* returns an error only when the channel it used is closed.
C11_PublishUsesCurrentChannel ==
  (cl.op = "Publish" /\ cl.pc \in {"publish", "returned"}) =>
    /\ cl.ch >= cl.since
    /\ (cl.pc = "returned" /\ cl.err # ErrNil) => cl.ch \notin chans

\* A Publish issued after a reconnection has succeeded on the new channel.
C11_Witness ==
  /\ cl.op = "Publish"
  /\ cl.pc = "returned"
  /\ cl.err = ErrNil
  /\ cl.since > FirstGen
  /\ cl.ch = bch

\* C12: once Broker.Close has returned, with or without an error, the
\* broker's current channel and its current connection are both closed.
C12_CloseReleasesBoth ==
  (cl.op = "Close" /\ cl.pc = "returned") =>
    (bch \notin chans /\ bconn \notin conns)


\* C13: the queues two Broker.Queue calls with the same name return are the
\* same queue: while a job published through the first is waiting, a Next on
\* the second returns a job.
C13_SameNamedQueue ==
  [][(MemQueueNext /\ jobsLen > idx) => cl'.job # NilJob]_vars


\* Broker.Close is waiting for the lock that the supervisor holds inside
\* connect.
CloseWaitsForConnect ==
  /\ cl.op = "Close"
  /\ cl.pc \in {"channel", "connection"}
  /\ bmut = "supervisor"
  /\ sup.pc \in {"dial", "dialwait", "chan", "chanwait"}

\* C14: once Broker.Close has been called the supervisor makes no further
\* attempt to dial or to open a channel, and Close never waits for connect.
C14_StopEndsReconnection ==
  /\ [][stop => ~(SupDial \/ SupChannel)]_vars
  /\ [](~CloseWaitsForConnect)


\* The supervisor is inside connect.
Reconnecting == sup.pc \in {"dial", "dialwait", "chan", "chanwait"}
\* The supervisor is back in its loop and the broker's pair is open.
Connected == sup.pc = "select" /\ bconn \in conns /\ bch \in chans

\* C15: a supervisor inside connect gets back to its loop with an open
\* connection and channel, unless the server cannot be reached at some
\* later moment, or Broker.Close is called (or the connections of the
\* behaviour are used up).
C15_ReconnectionCompletes ==
  Reconnecting ~> (Connected \/ ~up \/ stop \/ nDial = MaxGen)


\* C16: an operation that uses both a connection and a channel uses the
\* channel of that connection: the scoped queue Transaction builds, and the
\* channel and connection Broker.Close closes.
C16_PairOfOneGeneration ==
  /\ (cl.op = "Transaction" /\ cl.pc = "callback") => cl.conn = cl.ch
  /\ (cl.op = "Close" /\ cl.pc = "connclose") => cl.conn = cl.ch


\* C17: no call reads the broker's connection or channel while the
\* supervisor holds the lock under which it stores the new pair.
C17_ReadsUnderLock == cl.op # "none" => ~cl.racy

\* C18: the broker lock is not held while the supervisor dials, opens a
\* channel or waits between two attempts.
C18_LockFreeWhileConnecting == ~(bmut = "supervisor" /\ Reconnecting)


\* The jobs whose publish has completed in the in-memory backend: Publish has
\* returned (called by a producer or by the goroutine of an expired
\* PublishDelayed), or the transaction that published the job has committed.
MemCompleted ==
  {i \in JobIds :
     \/ /\ how[i].st \in {"direct", "delayed"}
        /\ \A t \in timers : t.job.ID # i
        /\ mut.pc # "free" => mut.job.ID # i
     \/ how[i].st = "committed"}

\* C19: in the in-memory backend every job of a completed Publish and of a
\* committed transaction is in the queue's job sequence, exactly once.
C19_NoJobLost ==
  Mem => \A i \in MemCompleted :
           Cardinality({k \in 1 .. jobsLen : jobs[k].ID = i}) = 1


\* C20: when Consume has returned an error, and when the Close of the
\* iterator it returned has returned, the channel Consume opened is closed.
C20_NoChannelLeftOpen ==
  (cl.op = "Consume" /\ cl.pc = "returned") => ~DedicatedOpen

====
